---- MODULE Spec2Model ----
(***************************************************************************)
(* examples/additional-dependencies/main.c of ebuild: resolve the runtime  *)
(* directory from argv[0], build "<dir>/example.txt" and echo that file.   *)
(*                                                                         *)
(* A character is a one-character string; NUL stands for '\0'.  A C        *)
(* buffer is the sequence of bytes stored from its first element on: a     *)
(* sequence longer than the array's capacity has run over its end.         *)
(***************************************************************************)
EXTENDS Integers, Sequences, FiniteSets, TLC

(* ---------------------------------------------------------------------- *)
(* Program constants                                                       *)
(* ---------------------------------------------------------------------- *)
PathBufSize == 1024
ExampleBufSize == 1024
LineSize == 256

NUL == "NUL"
NL == "\n"
Slash == "/"

LabelDir == <<"R", "u", "n", "t", "i", "m", "e", " ", "d", "i", "r", "e", "c", "t", "o", "r", "y", ":", " ">>
LabelTarget == <<"O", "p", "e", "n", " ", "f", "i", "l", "e", " ", "a", "t", " ", "p", "a", "t", "h", ":", " ">>
LabelFail == <<"F", "a", "i", "l", "e", "d", " ", "t", "o", " ", "o", "p", "e", "n", " ", "f", "i", "l", "e", ":", " ">>
ExampleSuffix == <<"/", "e", "x", "a", "m", "p", "l", "e", ".", "t", "x", "t">>

(* ---------------------------------------------------------------------- *)
(* Bounds of the explored inputs                                           *)
(* ---------------------------------------------------------------------- *)
MaxPathLen == 3
MaxFileLen == 3

Min(a, b) == IF a <= b THEN a ELSE b

Pad(n) == [i \in 1..n |-> "a"]

SeqsUpTo(S, n) == UNION {[1..k -> S] : k \in 0..n}

PathChars == {"a", Slash}
FileChars == {"a", NL, NUL}

ShortPaths == SeqsUpTo(PathChars, MaxPathLen)
\* paths around the capacities of path_buffer and example_buffer
LongPathPads == {ExampleBufSize - 13, ExampleBufSize - 12,
                 PathBufSize - 3, PathBufSize - 2, PathBufSize - 1, PathBufSize}
LongPathTails == {<< >>, <<Slash>>, <<Slash, "a">>}
LongPaths == {Pad(n) \o t : n \in LongPathPads, t \in LongPathTails}

ShortFiles == SeqsUpTo(FileChars, MaxFileLen)
\* lines around one and two chunks of fgets
LongFilePads == {LineSize - 2, LineSize - 1, LineSize, 2 * LineSize - 2, 2 * LineSize - 1}
LongFileTails == {<< >>, <<NL>>, <<NL, "a">>, <<NUL, NL>>}
LongFiles == {Pad(n) \o t : n \in LongFilePads, t \in LongFileTails}

(* ---------------------------------------------------------------------- *)
(* C library functions, as the program uses them                           *)
(* ---------------------------------------------------------------------- *)

\* the string a char* denotes: the bytes before the first terminator
CStr(buf) ==
    IF \E i \in 1..Len(buf) : buf[i] = NUL
    THEN LET n == CHOOSE i \in 1..Len(buf) :
                     buf[i] = NUL /\ \A j \in 1..(i - 1) : buf[j] # NUL
         IN SubSeq(buf, 1, n - 1)
    ELSE buf

\* strrchr(s, c): index of the last c in the string, 0 for a null result
strrchr(buf, c) ==
    LET s == CStr(buf)
        hits == {i \in 1..Len(s) : s[i] = c}
    IN IF hits = {} THEN 0
       ELSE CHOOSE i \in hits : \A j \in hits : j <= i

\* a copy that honours the capacity of path_buffer
strcpy_bounded(src) == SubSeq(src, 1, Min(Len(src), PathBufSize - 1)) \o <<NUL>>

\* strcpy(dst, src): the bytes stored from dst[0] on, terminator included
strcpy(src) == src \o <<NUL>>

\* parent_dir(path): the buffer after the call
parent_dir(buf) ==
    LET last_slash == strrchr(buf, Slash)
    IN IF last_slash # 0 THEN [buf EXCEPT ![last_slash] = NUL] ELSE buf

\* snprintf(buf, size, "%s/example.txt", dir): the bytes stored in buf
snprintf(size, dir) ==
    LET full == CStr(dir) \o ExampleSuffix
    IN SubSeq(full, 1, Min(Len(full), size - 1)) \o <<NUL>>

\* printf(label "%s\n", arg)
FormatLine(label, arg) == label \o CStr(arg) \o <<NL>>

\* printf("%s", line)
FormatS(arg) == CStr(arg)

\* fgets(line, size, file) with `pos` characters of `content` consumed:
\* the number of characters it stores before the terminator (0: null result)
FgetsCount(size, content, pos) ==
    LET avail == Len(content) - pos
        lim == Min(size - 1, avail)
        nls == {i \in 1..lim : content[pos + i] = NL}
    IN IF nls = {} THEN lim
       ELSE CHOOSE i \in nls : \A j \in nls : i <= j

\* get_runtime_dir(argc, argv, buffer, buffer_size) once the copy has stored
\* `stored` from buffer[0] on
get_runtime_dir(stored, buffer_size) == parent_dir(stored)

\* What memory holds from buffer[0] on after `bytes` were stored in an array
\* of `cap` elements.  Within the array it is the bytes stored.  Storing past
\* the end of the array is undefined: what is read back there is whatever the
\* neighbouring objects hold afterwards.
StrayTails == {<<NUL>>, <<"a", NUL>>, <<Slash, NUL>>}
Stored(bytes, cap) ==
    IF Len(bytes) <= cap THEN {bytes}
    ELSE {bytes} \cup {SubSeq(bytes, 1, cap) \o t : t \in StrayTails}

(* ---------------------------------------------------------------------- *)
(* State                                                                   *)
(* ---------------------------------------------------------------------- *)
VARIABLES
    argv,            \* the argument vector; << >> when argc = 0 (argv[0] null)
    fileExists,      \* whether fopen of the target path succeeds
    fileContent,     \* the characters of the target file
    pc,              \* the statement of main / print_file_content to run next
    path_buffer,     \* main.path_buffer
    example_buffer,  \* main.example_buffer
    line,            \* print_file_content.line
    filePos,         \* characters of the file consumed by fgets
    handleOpen,      \* print_file_content.file is an open handle
    stdout,          \* characters written to standard output
    stderr,          \* characters written to standard error
    exitStatus,      \* the process's status, -1 while it runs
    copyExtent,      \* bytes the copy of get_runtime_dir stored
    smashed,         \* the copy stored bytes past the end of path_buffer
    events,          \* the calls made so far, in order
    chunksRead,      \* what each successful fgets stored, terminator excluded
    chunksWritten    \* what each printf("%s", line) wrote

vars == <<argv, fileExists, fileContent, pc, path_buffer, example_buffer, line,
          filePos, handleOpen, stdout, stderr, exitStatus, copyExtent, smashed,
          events, chunksRead, chunksWritten>>

env == <<argv, fileExists, fileContent>>

Init ==
    /\ argv \in {<<p>> : p \in ShortPaths \cup LongPaths} \cup {<< >>}
    /\ fileContent \in ShortFiles \cup LongFiles
    /\ fileExists \in BOOLEAN
    /\ pc = "get_runtime_dir"
    /\ path_buffer = << >>
    /\ example_buffer = << >>
    /\ line = << >>
    /\ filePos = 0
    /\ handleOpen = FALSE
    /\ stdout = << >>
    /\ stderr = << >>
    /\ exitStatus = -1
    /\ copyExtent = 0
    /\ smashed = FALSE
    /\ events = << >>
    /\ chunksRead = << >>
    /\ chunksWritten = << >>

(* ---------------------------------------------------------------------- *)
(* main                                                                    *)
(* ---------------------------------------------------------------------- *)

\* line 34, get_runtime_dir(argc, argv, path_buffer, sizeof(path_buffer))
GetRuntimeDir ==
    /\ pc = "get_runtime_dir"
    /\ argv # << >>
    /\ LET bytes == strcpy(argv[1])
       IN /\ copyExtent' = Len(bytes)
          /\ smashed' = (Len(bytes) > PathBufSize)
          /\ \E held \in Stored(bytes, PathBufSize) :
                path_buffer' = get_runtime_dir(held, PathBufSize)
    /\ events' = Append(events, "resolve")
    /\ pc' = "print_dir"
    /\ UNCHANGED <<env, example_buffer, line, filePos, handleOpen, stdout,
                   stderr, exitStatus, chunksRead, chunksWritten>>

\* line 12 when the copy faults: argv[0] is null, or the copy runs over the
\* end of path_buffer and the build traps it
GetRuntimeDirFault ==
    /\ pc = "get_runtime_dir"
    /\ \/ argv = << >>
       \/ /\ argv # << >>
          /\ Len(strcpy(argv[1])) > PathBufSize
    /\ pc' = "aborted"
    /\ exitStatus' \in {134, 139}
    /\ UNCHANGED <<env, path_buffer, example_buffer, line, filePos, handleOpen,
                   stdout, stderr, copyExtent, smashed, events, chunksRead,
                   chunksWritten>>

\* line 35, printf("Runtime directory: %s\n", path_buffer)
PrintRuntimeDir ==
    /\ pc = "print_dir"
    /\ stdout' = stdout \o FormatLine(LabelDir, path_buffer)
    /\ events' = Append(events, "print_dir")
    /\ pc' = "snprintf"
    /\ UNCHANGED <<env, path_buffer, example_buffer, line, filePos, handleOpen,
                   stderr, exitStatus, copyExtent, smashed, chunksRead,
                   chunksWritten>>

\* the target is built but its line is not printed before the file is opened
BuildTargetThenOpen ==
    /\ pc = "snprintf"
    /\ example_buffer' = snprintf(ExampleBufSize, path_buffer)
    /\ events' = Append(events, "build")
    /\ pc' = "fopen"
    /\ UNCHANGED <<env, path_buffer, line, filePos, handleOpen, stdout, stderr,
                   exitStatus, copyExtent, smashed, chunksRead, chunksWritten>>

\* line 36, snprintf(example_buffer, sizeof(example_buffer), ...)
BuildTarget ==
    /\ pc = "snprintf"
    /\ example_buffer' = snprintf(ExampleBufSize, path_buffer)
    /\ events' = Append(events, "build")
    /\ pc' = "print_target"
    /\ UNCHANGED <<env, path_buffer, line, filePos, handleOpen, stdout, stderr,
                   exitStatus, copyExtent, smashed, chunksRead, chunksWritten>>

\* line 37, fprintf(stdout, "Open file at path: %s\n", example_buffer)
PrintTarget ==
    /\ pc = "print_target"
    /\ stdout' = stdout \o FormatLine(LabelTarget, example_buffer)
    /\ events' = Append(events, "print_target")
    /\ pc' = "fopen"
    /\ UNCHANGED <<env, path_buffer, example_buffer, line, filePos, handleOpen,
                   stderr, exitStatus, copyExtent, smashed, chunksRead,
                   chunksWritten>>

\* lines 39-41, falling off the end of main returns 0
MainReturn ==
    /\ pc = "main_end"
    /\ pc' = "done"
    /\ exitStatus' = 0
    /\ UNCHANGED <<env, path_buffer, example_buffer, line, filePos, handleOpen,
                   stdout, stderr, copyExtent, smashed, events, chunksRead,
                   chunksWritten>>

\* line 41 when the copy ran over main's frame: the return does not get back
\* to the caller
MainReturnSmashed ==
    /\ pc = "main_end"
    /\ smashed
    /\ pc' = "aborted"
    /\ exitStatus' \in {134, 139}
    /\ UNCHANGED <<env, path_buffer, example_buffer, line, filePos, handleOpen,
                   stdout, stderr, copyExtent, smashed, events, chunksRead,
                   chunksWritten>>

(* ---------------------------------------------------------------------- *)
(* print_file_content(example_buffer)                                      *)
(* ---------------------------------------------------------------------- *)

\* line 17, fopen returns a handle
FopenOk ==
    /\ pc = "fopen"
    /\ fileExists
    /\ handleOpen' = TRUE
    /\ filePos' = 0
    /\ events' = Append(events, "fopen_ok")
    /\ pc' = "fgets"
    /\ UNCHANGED <<env, path_buffer, example_buffer, line, stdout, stderr,
                   exitStatus, copyExtent, smashed, chunksRead, chunksWritten>>

\* line 17, fopen returns null
FopenFail ==
    /\ pc = "fopen"
    /\ ~fileExists
    /\ events' = Append(events, "fopen_fail")
    /\ pc' = "diag"
    /\ UNCHANGED <<env, path_buffer, example_buffer, line, filePos, handleOpen,
                   stdout, stderr, exitStatus, copyExtent, smashed, chunksRead,
                   chunksWritten>>

\* line 20, fgets stores a chunk
FgetsLine ==
    /\ pc = "fgets"
    /\ LET n == FgetsCount(LineSize, fileContent, filePos)
       IN /\ n > 0
          /\ line' = SubSeq(fileContent, filePos + 1, filePos + n) \o <<NUL>>
          /\ chunksRead' = Append(chunksRead,
                                  SubSeq(fileContent, filePos + 1, filePos + n))
          /\ filePos' = filePos + n
    /\ events' = Append(events, "fgets")
    /\ pc' = "printf"
    /\ UNCHANGED <<env, path_buffer, example_buffer, handleOpen, stdout, stderr,
                   exitStatus, copyExtent, smashed, chunksWritten>>

\* the loop ends and the function returns with the handle still open
FgetsEofLeak ==
    /\ pc = "fgets"
    /\ FgetsCount(LineSize, fileContent, filePos) = 0
    /\ events' = Append(events, "fgets_eof")
    /\ pc' = "main_end"
    /\ UNCHANGED <<env, path_buffer, example_buffer, line, filePos, handleOpen,
                   stdout, stderr, exitStatus, copyExtent, smashed, chunksRead,
                   chunksWritten>>

\* line 20, fgets returns null at end of input
FgetsEof ==
    /\ pc = "fgets"
    /\ FgetsCount(LineSize, fileContent, filePos) = 0
    /\ events' = Append(events, "fgets_eof")
    /\ pc' = "fclose"
    /\ UNCHANGED <<env, path_buffer, example_buffer, line, filePos, handleOpen,
                   stdout, stderr, exitStatus, copyExtent, smashed, chunksRead,
                   chunksWritten>>

\* line 21, printf("%s", line)
PrintfLine ==
    /\ pc = "printf"
    /\ stdout' = stdout \o FormatS(line)
    /\ chunksWritten' = Append(chunksWritten, FormatS(line))
    /\ events' = Append(events, "printf")
    /\ pc' = "fgets"
    /\ UNCHANGED <<env, path_buffer, example_buffer, line, filePos, handleOpen,
                   stderr, exitStatus, copyExtent, smashed, chunksRead>>

\* line 23, fclose(file)
Fclose ==
    /\ pc = "fclose"
    /\ handleOpen' = FALSE
    /\ events' = Append(events, "fclose")
    /\ pc' = "main_end"
    /\ UNCHANGED <<env, path_buffer, example_buffer, line, filePos, stdout,
                   stderr, exitStatus, copyExtent, smashed, chunksRead,
                   chunksWritten>>

\* the diagnostic goes to standard output
FailDiagToStdout ==
    /\ pc = "diag"
    /\ stdout' = stdout \o FormatLine(LabelFail, example_buffer)
    /\ events' = Append(events, "diag")
    /\ pc' = "main_end"
    /\ UNCHANGED <<env, path_buffer, example_buffer, line, filePos, handleOpen,
                   stderr, exitStatus, copyExtent, smashed, chunksRead,
                   chunksWritten>>

\* line 25, fprintf(stderr, "Failed to open file: %s\n", path)
FailDiag ==
    /\ pc = "diag"
    /\ stderr' = stderr \o FormatLine(LabelFail, example_buffer)
    /\ events' = Append(events, "diag")
    /\ pc' = "main_end"
    /\ UNCHANGED <<env, path_buffer, example_buffer, line, filePos, handleOpen,
                   stdout, exitStatus, copyExtent, smashed, chunksRead,
                   chunksWritten>>

Next ==
    \/ GetRuntimeDir
    \/ GetRuntimeDirFault
    \/ PrintRuntimeDir
    \/ BuildTarget
    \/ PrintTarget
    \/ FopenOk
    \/ FopenFail
    \/ FgetsLine
    \/ FgetsEof
    \/ PrintfLine
    \/ Fclose
    \/ FailDiag
    \/ MainReturn
    \/ MainReturnSmashed

Spec == Init /\ [][Next]_vars

(* ---------------------------------------------------------------------- *)
(* Properties                                                              *)
(* ---------------------------------------------------------------------- *)
Happened(e) == \E i \in 1..Len(events) : events[i] = e
Count(e) == Cardinality({i \in 1..Len(events) : events[i] = e})
HasSlash(p) == \E i \in 1..Len(p) : p[i] = Slash
EndsWith(s, c) == Len(s) > 0 /\ s[Len(s)] = c
Returned == pc \in {"main_end", "done"} \/ (pc = "aborted" /\ Happened("resolve"))

\* standard output after its first two lines
AfterLabels(out) ==
    LET nls == {i \in 1..Len(out) : out[i] = NL}
        second == CHOOSE i \in nls : Cardinality({j \in nls : j <= i}) = 2
    IN SubSeq(out, second + 1, Len(out))

\* C1: once get_runtime_dir has run on an invocation path that contains a
\* '/', the runtime directory in path_buffer is the characters of the path
\* before its last '/'.
C1_ParentOfLastSlash ==
    (pc # "get_runtime_dir" /\ argv # << >> /\ HasSlash(argv[1])) =>
        \E i \in 1..Len(argv[1]) :
            /\ argv[1][i] = Slash
            /\ \A j \in (i + 1)..Len(argv[1]) : argv[1][j] # Slash
            /\ CStr(path_buffer) = SubSeq(argv[1], 1, i - 1)

\* C2: once get_runtime_dir has run on an invocation path without a '/', the
\* runtime directory is the invocation path unchanged and the process has
\* not been ended by an error.
C2_NoSlashUnchanged ==
    (pc # "get_runtime_dir" /\ argv # << >> /\ ~HasSlash(argv[1])) =>
        /\ CStr(path_buffer) = argv[1]
        /\ exitStatus \in {-1, 0}

\* C3: once main has built the target path, it is the runtime directory
\* followed by "/example.txt", nothing dropped and nothing added; it is the
\* path printed after "Open file at path: " and given to print_file_content.
C3_TargetExact ==
    /\ Happened("build") =>
          CStr(example_buffer) = CStr(path_buffer) \o ExampleSuffix
    /\ Happened("print_target") =>
          stdout = LabelDir \o CStr(path_buffer) \o <<NL>>
                   \o LabelTarget \o CStr(path_buffer) \o ExampleSuffix \o <<NL>>
                   \o AfterLabels(stdout)

\* C4: when the file was opened and print_file_content has returned, what
\* standard output holds after the two label lines is the file's content.
C4_EchoesContent ==
    (Returned /\ Happened("fopen_ok")) => AfterLabels(stdout) = fileContent

\* C5: when the open fails, nothing reaches standard error before the
\* diagnostic; after it standard error is exactly the line "Failed to open
\* file: <target path>", standard output is exactly the two label lines,
\* nothing was read or closed, and control is back at the end of main.
C5_OpenFailure ==
    Happened("fopen_fail") =>
        IF pc = "diag"
        THEN stderr = << >>
        ELSE /\ stderr = LabelFail \o CStr(example_buffer) \o <<NL>>
             /\ stdout = LabelDir \o CStr(path_buffer) \o <<NL>>
                         \o LabelTarget \o CStr(example_buffer) \o <<NL>>
             /\ events = <<"resolve", "print_dir", "build", "print_target",
                           "fopen_fail", "diag">>
             /\ chunksRead = << >> /\ chunksWritten = << >>
             /\ filePos = 0 /\ line = << >>
             /\ ~handleOpen
             /\ Returned
             /\ (pc = "aborted" => smashed)

C5_Witness ==
    pc = "done" /\ Happened("fopen_fail") /\ exitStatus = 0
    /\ Len(stderr) > Len(LabelFail) + 1

\* C6: a handle is open exactly from the successful fopen to the fclose;
\* fclose runs at most once, directly after the fgets that returned end of
\* input, and nothing is read or written after it; when print_file_content
\* has returned no handle is open, an opened one was closed exactly once and
\* a failed open closed none.
C6_HandleReleased ==
    /\ Count("fclose") <= 1
    /\ handleOpen <=> (Happened("fopen_ok") /\ ~Happened("fclose"))
    /\ Happened("fclose") =>
          /\ events[Len(events)] = "fclose"
          /\ events[Len(events) - 1] = "fgets_eof"
          /\ Count("fgets_eof") = 1
    /\ Returned =>
          /\ ~handleOpen
          /\ Happened("fopen_ok") => Count("fclose") = 1
          /\ Happened("fopen_fail") => Count("fclose") = 0

C6_Witness ==
    pc = "done" /\ Happened("fclose") /\ Len(chunksRead) >= 2 /\ ~handleOpen

\* C7: a run that got to the end of main ends with exit status 0, whether the
\* file was printed or the open failed.
C7_ExitSuccess ==
    ((Happened("fclose") \/ Happened("diag")) /\ pc \in {"done", "aborted"}) =>
        exitStatus = 0

\* C8: the calls happen in the order resolve, print directory line, build
\* target, print target line, and only then the open and what follows it; no
\* content or diagnostic is written before both label lines are on standard
\* output.
MainOrder == <<"resolve", "print_dir", "build", "print_target">>
FileEvents == {"fopen_ok", "fopen_fail", "fgets", "fgets_eof", "printf",
               "fclose", "diag"}
C8_Order ==
    /\ \A i \in 1..Len(events) :
          IF i <= Len(MainOrder) THEN events[i] = MainOrder[i]
          ELSE events[i] \in FileEvents
    /\ Len(events) > Len(MainOrder) =>
          /\ events[Len(MainOrder) + 1] \in {"fopen_ok", "fopen_fail"}
          /\ Count("fopen_ok") + Count("fopen_fail") = 1
    /\ Len(events) <= Len(MainOrder) =>
          /\ stderr = << >>
          /\ chunksWritten = << >>
          /\ ~handleOpen
          /\ Cardinality({i \in 1..Len(stdout) : stdout[i] = NL})
               = Count("print_dir") + Count("print_target")
    /\ Len(events) >= Len(MainOrder) =>
          SubSeq(stdout, 1, Len(LabelDir) + Len(CStr(path_buffer)) + 1
                            + Len(LabelTarget) + Len(CStr(example_buffer)) + 1)
            = LabelDir \o CStr(path_buffer) \o <<NL>>
              \o LabelTarget \o CStr(example_buffer) \o <<NL>>

C8_Witness ==
    pc = "done" /\ Happened("printf") /\ Len(events) > Len(MainOrder) + 3

\* C9: every chunk the loop reads is written as it is, is not empty, has at
\* most 255 characters, ends with a newline or has 255 characters or is the
\* last one before end of input, and holds a newline only as its last
\* character; a chunk is written before the next one is read.
ChunkOk(c, isLast) ==
    /\ Len(c) >= 1
    /\ Len(c) <= 255
    /\ EndsWith(c, NL) \/ Len(c) = 255 \/ isLast
    /\ \A k \in 1..(Len(c) - 1) : c[k] # NL
C9_Chunks ==
    /\ Len(chunksRead) - Len(chunksWritten) = (IF pc = "printf" THEN 1 ELSE 0)
    /\ \A i \in 1..Len(chunksRead) :
          ChunkOk(chunksRead[i], filePos = Len(fileContent) /\ i = Len(chunksRead))
    /\ \A i \in 1..Len(chunksWritten) :
          /\ chunksWritten[i] = chunksRead[i]
          /\ ChunkOk(chunksWritten[i],
                     filePos = Len(fileContent) /\ i = Len(chunksRead))

\* C10: the copy of get_runtime_dir stores the whole invocation path and its
\* terminator whatever the capacity it was given: it stays within
\* path_buffer exactly when the path has at most 1023 characters.
C10_CopyUnbounded ==
    Happened("resolve") =>
        /\ copyExtent = Len(argv[1]) + 1
        /\ (copyExtent <= PathBufSize) <=> (Len(argv[1]) <= 1023)
        /\ smashed <=> (Len(argv[1]) > 1023)

C10_Witness ==
    Happened("resolve") /\ smashed /\ copyExtent > PathBufSize
    /\ Len(argv[1]) = 1024

====
